---------------------------- MODULE Spec2Model ----------------------------
(***************************************************************************)
(* CodeTrackPro: cross-platform statistics synchronisation.                *)
(*                                                                         *)
(* The model follows the backend sources:                                  *)
(*   models/PlatformAccount.js, models/StatsHistory.js, models/User.js,    *)
(*   services/scheduledTasks.js (bundled in routes/statsRoutes.js),        *)
(*   controllers/statsController.js (unnamed/part_002),                    *)
(*   controllers/profileController.js (unnamed/part_004), server.js.       *)
(*                                                                         *)
(* Documents are stored through Mongoose schemas, which are strict: a path *)
(* that the schema does not declare is dropped when a document or an       *)
(* update is cast, and a required path that is missing fails validation.   *)
(* Optional values are sets with at most one element ({} = absent).        *)
(***************************************************************************)
EXTENDS Integers, Sequences, FiniteSets, TLC

(***************************************************************************)
(* Bounds of the model.                                                    *)
(***************************************************************************)
MaxAccounts == 2      \* account documents ever created
MaxRequests == 3      \* HTTP requests and cron firings handled in one behaviour
MaxClock == 7         \* last clock value (hours)
TickHours == 7        \* hours that pass in one clock step
MaxScoreAccounts == 3 \* accounts of one user in a score computation
batchSize == 1        \* accounts per batch; the source fixes 10, scaled down here
                      \* so that a cycle over MaxAccounts accounts has two batches

(***************************************************************************)
(* Program constants.                                                      *)
(***************************************************************************)
StaleHours == 6            \* scheduled selection: 6 * 60 * 60 * 1000 ms
baseProblems == 100        \* getBaseStatsForPlatform.totalProblemsSolved
baseStreakCurrent == 5     \* getBaseStatsForPlatform.streak.current
baseStreakMax == 15        \* getBaseStatsForPlatform.streak.max
baseAcceptanceRate == 75   \* getBaseStatsForPlatform.acceptanceRate
baseSubmissions == 150     \* getBaseStatsForPlatform.totalSubmissions

Users == {"u1", "u2"}
PlatformNames == {"leetcode", "codeforces"}

(***************************************************************************)
(* JavaScript helpers.                                                     *)
(***************************************************************************)
\* Math.round(num / den) for den > 0: halves round up.
MathRound(num, den) == (2 * num + den) \div (2 * den)

MathMax(a, b) == IF a >= b THEN a ELSE b

\* { ...a, ...b }: every key of a and of b, b's value where both have the key.
Spread(a, b) ==
    [k \in (DOMAIN a) \cup (DOMAIN b) |-> IF k \in DOMAIN b THEN b[k] ELSE a[k]]

EmptyObject == [k \in {} |-> 0]

\* newStats.g || {}
OrEmpty(obj, g) == IF g \in DOMAIN obj THEN obj[g] ELSE EmptyObject

\* obj restricted to the keys in paths (a strict schema drops the others).
Pick(obj, paths) == [k \in (DOMAIN obj) \cap paths |-> obj[k]]

(***************************************************************************)
(* PlatformAccount schema.                                                 *)
(***************************************************************************)
StatsCounterPaths == {"totalProblemsSolved", "contestRating", "badges"}
StreakPaths == {"current", "max"}
SubmissionStatsPaths == {"totalSubmissions", "acceptedSubmissions", "acceptanceRate"}
StatsPaths == StatsCounterPaths \cup {"streak", "submissionStats"}

\* The schema's defaults: what PlatformAccount.create stores for stats.
DefaultStats ==
    [totalProblemsSolved |-> 0, contestRating |-> 0, badges |-> 0,
     streak |-> [current |-> 0, max |-> 0],
     submissionStats |-> [totalSubmissions |-> 0, acceptedSubmissions |-> 0,
                          acceptanceRate |-> 0]]

\* Assigning an object to account.stats casts it to the schema: undeclared
\* paths (stats.lastUpdated, a flat totalSubmissions or acceptanceRate) are
\* dropped, at the top level and inside the two nested groups.
CastStats(obj) ==
    [k \in (DOMAIN obj) \cap StatsPaths |->
        IF k = "streak" THEN Pick(obj[k], StreakPaths)
        ELSE IF k = "submissionStats" THEN Pick(obj[k], SubmissionStatsPaths)
        ELSE obj[k]]

\* pre('save'): the stored acceptance rate is recomputed only when
\* totalSubmissions > 0; otherwise the value on the document is written as is.
PreSave(stats) ==
    LET s == stats.submissionStats IN
    IF s.totalSubmissions > 0
    THEN [stats EXCEPT !.submissionStats.acceptanceRate =
              MathRound(s.acceptedSubmissions * 100, s.totalSubmissions)]
    ELSE stats

\* virtual('acceptanceRate')
AcceptanceRateVirtual(stats) ==
    LET s == stats.submissionStats IN
    IF s.totalSubmissions > 0
    THEN MathRound(s.acceptedSubmissions * 100, s.totalSubmissions)
    ELSE 0

\* virtual('platformCScore'): round(problems*0.7 + rating*0.3 + badges*10)
platformCScore(stats) ==
    MathRound(stats.totalProblemsSolved * 7 + stats.contestRating * 3
              + stats.badges * 100, 10)

\* methods.updateStats, the merge: top level spread, the two nested groups
\* spread field by field.
UpdateStatsMerge(existing, newStats) ==
    Spread(Spread(existing, newStats),
           [submissionStats |-> Spread(existing.submissionStats,
                                       OrEmpty(newStats, "submissionStats")),
            streak |-> Spread(existing.streak, OrEmpty(newStats, "streak"))])

\* updateAllUserStats, the merge of the scheduled cycle: one shallow spread.
ScheduledMerge(existing, updatedStats, today) ==
    Spread(Spread(existing, updatedStats), [lastUpdated |-> today])


(***************************************************************************)
(* State.                                                                  *)
(***************************************************************************)
VARIABLES
    accounts,   \* PlatformAccount collection: a document's _id is its index
    users,      \* User collection, by user id
    history,    \* StatsHistory collection
    now,        \* the clock (hours)
    requests,   \* HTTP requests and cron firings handled so far
    cycle,      \* the scheduled job updateAllUserStats
    attempt,    \* per account: the most recent sync attempt and how it ended
    twin,       \* the run without the injected failure: its collection and its job
    strictQuery,\* the build: does Mongoose drop undeclared paths from a query filter
    trial,      \* an application of a pure function: its inputs and its result
    snapshotCalls, \* StatsHistory.createSnapshot calls, from their findOne on
    linkCalls   \* addPlatformAccount requests, from their findOne on

vars == <<accounts, users, history, now, requests, cycle, attempt, twin,
          strictQuery, trial, snapshotCalls, linkCalls>>

(***************************************************************************)
(* Sequences of documents.                                                 *)
(***************************************************************************)
Ids(accts) == 1..Len(accts)

\* PlatformAccount.find({ userId, isActive: true }), in collection order
ActiveAccountsOf(accts, u) ==
    LET Match(a) == a.userId = u /\ a.isActive IN SelectSeq(accts, Match)

\* PlatformAccount.findOne({ userId, platformName, isActive: true }): ids
FindActive(accts, u, p) ==
    {id \in Ids(accts) : accts[id].userId = u /\ accts[id].platformName = p
                          /\ accts[id].isActive}

RECURSIVE SumProblems(_)
SumProblems(accts) ==
    IF accts = <<>> THEN 0
    ELSE Head(accts).stats.totalProblemsSolved + SumProblems(Tail(accts))

RECURSIVE SumRating(_)
SumRating(accts) ==
    IF accts = <<>> THEN 0
    ELSE Head(accts).stats.contestRating + SumRating(Tail(accts))

\* A reduction that keeps the streak of the last account only.
LastStreak(accts) ==
    IF accts = <<>> THEN 0 ELSE accts[Len(accts)].stats.streak.max

RECURSIVE MaxStreak(_)
MaxStreak(accts) ==
    IF accts = <<>> THEN 0
    ELSE MathMax(Head(accts).stats.streak.max, MaxStreak(Tail(accts)))

RECURSIVE SumPlatformCScore(_)
SumPlatformCScore(accts) ==
    IF accts = <<>> THEN 0
    ELSE platformCScore(Head(accts).stats) + SumPlatformCScore(Tail(accts))

(***************************************************************************)
(* User schema and the two score writers.                                  *)
(***************************************************************************)
\* The score path that the User schema declares.
UserPaths == {"totalCScore"}

DefaultUser == [totalCScore |-> 0, isActive |-> TRUE]

\* middleware protect: 401 for a user whose isActive is false
Authenticated(usrs, u) == usrs[u].isActive

\* User.findByIdAndUpdate(userId, patch): the update is cast to the schema.
UserUpdate(user, patch) == Spread(user, Pick(patch, UserPaths))

\* scheduledTasks.updateUserCScore, the value: the rating is averaged over
\* every account (platformCount), rated or not.
cScoreOf(platformAccounts) ==
    LET totalProblems == SumProblems(platformAccounts)
        totalRating == SumRating(platformAccounts)
        maxStreak == MaxStreak(platformAccounts)
        platformCount == Len(platformAccounts)
    IN  \* round(totalProblems*10 + (totalRating/platformCount)*0.5
        \*       + maxStreak*20 + platformCount*50)
        MathRound((totalProblems * 10 + maxStreak * 20 + platformCount * 50)
                      * (2 * platformCount) + totalRating,
                  2 * platformCount)

\* scheduledTasks.updateUserCScore: no write for a user without active accounts.
updateUserCScore(accts, usrs, u) ==
    LET platformAccounts == ActiveAccountsOf(accts, u) IN
    IF Len(platformAccounts) = 0 THEN usrs
    ELSE [usrs EXCEPT ![u] = UserUpdate(@, [cScore |-> cScoreOf(platformAccounts)])]

\* statsController.updateUserCScore: the sum of the accounts' platformCScore.
updateUserTotalCScore(accts, usrs, u) ==
    [usrs EXCEPT ![u] =
        UserUpdate(@, [totalCScore |-> SumPlatformCScore(ActiveAccountsOf(accts, u))])]

(***************************************************************************)
(* PlatformAccount documents and methods.                                  *)
(***************************************************************************)
\* PlatformAccount.create in addPlatformAccount: schema defaults, status pending.
\* The write-only dates (lastSyncError.timestamp, createdAt, updatedAt) are
\* left out of the document; lastSyncedAt is the value the collection stores.
NewAccount(u, p, t) ==
    [userId |-> u, platformName |-> p, isActive |-> TRUE,
     stats |-> PreSave(DefaultStats), lastUpdated |-> t, lastSyncedAt |-> {},
     lastSyncError |-> {}, syncStatus |-> "pending"]

\* methods.updateStats followed by its save()
updateStats(doc, newStats, t) ==
    [doc EXCEPT !.stats = PreSave(CastStats(UpdateStatsMerge(doc.stats, newStats))),
                !.lastUpdated = t,
                !.syncStatus = "success",
                !.lastSyncError = {}]

\* methods.recordSyncError followed by its save()
recordSyncError(doc, message) ==
    [doc EXCEPT !.stats = PreSave(doc.stats),
                !.syncStatus = "error",
                !.lastSyncError = {[message |-> message]}]

(***************************************************************************)
(* The fetchers.                                                           *)
(***************************************************************************)
\* getBaseStatsForPlatform: the platform-specific rating
BaseRating(platform) ==
    IF platform = "leetcode" THEN 1600
    ELSE IF platform = "codeforces" THEN 1400
    ELSE 1500

\* Math.floor(Math.random() * 3) ranges over 0..2; the model draws from {0, 2}
\* and keeps the other random offsets at 0.
RandProblems == {0, 2}

\* simulateStatsFetch, its return values: a flat shape with a full streak.
SimulatedStats(platform) ==
    {[totalProblemsSolved |-> baseProblems + dp,
      contestRating |-> BaseRating(platform),
      streak |-> [current |-> MathMax(0, baseStreakCurrent),
                  max |-> baseStreakMax],
      acceptanceRate |-> baseAcceptanceRate,
      totalSubmissions |-> baseSubmissions] : dp \in RandProblems}

\* The External Fetcher's failures.
FetchErrors == {"RateLimited"}

\* Raw metrics of services/platformSync.syncPlatformData and bodies of
\* PUT /api/stats/update: partial shapes, with accepted <= total.
RawMetrics ==
    {[totalProblemsSolved |-> 50, streak |-> [current |-> 6]],
     [submissionStats |-> [totalSubmissions |-> 4, acceptedSubmissions |-> 3]],
     [submissionStats |-> [totalSubmissions |-> 0, acceptedSubmissions |-> 0,
                           acceptanceRate |-> 50]]}

\* syncPlatformData(platform, username): raw metrics, or a failure.
SyncPlatformDataOutcomes ==
    {[ok |-> TRUE, stats |-> m] : m \in RawMetrics}
        \cup {[ok |-> FALSE, message |-> e] : e \in FetchErrors}

(***************************************************************************)
(* StatsHistory schema.                                                    *)
(***************************************************************************)
HistoryPaths == {"userId", "platformName", "date", "snapshotType", "stats"}
HistoryRequired == {"userId", "platformName"}

\* StatsHistory.create(doc): the document is cast to the schema and validated;
\* a missing required path without a default is a ValidationError.
HistoryCreateValid(doc) == HistoryRequired \subseteq DOMAIN Pick(doc, HistoryPaths)


HistoryCast(doc) == Pick(doc, HistoryPaths)

(***************************************************************************)
(* Request handlers: their effect on the PlatformAccount collection.       *)
(***************************************************************************)
\* addPlatformAccount: 400 when an active account of the platform is linked;
\* otherwise create, which the unique index {userId, platformName} rejects
\* when any document of the pair exists.
AddAccount(accts, u, p, t) ==
    IF FindActive(accts, u, p) # {} THEN accts
    ELSE IF \E id \in Ids(accts) : accts[id].userId = u /\ accts[id].platformName = p
         THEN accts
         ELSE Append(accts, NewAccount(u, p, t))

\* A removal that drops the document from the collection.
HardDeleteAccount(accts, id) ==
    SubSeq(accts, 1, id - 1) \o SubSeq(accts, id + 1, Len(accts))

\* removePlatformAccount: soft delete, then save()
RemoveAccount(accts, id) ==
    [accts EXCEPT ![id].isActive = FALSE, ![id].stats = PreSave(@)]

\* deleteProfile: PlatformAccount.updateMany({ userId }, { isActive: false })
DeactivateAccounts(accts, u) ==
    [id \in Ids(accts) |->
        IF accts[id].userId = u THEN [accts[id] EXCEPT !.isActive = FALSE]
        ELSE accts[id]]

\* try { updateStats(await syncPlatformData(..)) } catch { recordSyncError }
SyncOne(doc, o, t) ==
    IF o.ok THEN updateStats(doc, o.stats, t) ELSE recordSyncError(doc, o.message)

\* syncAllPlatforms, the loop: outs gives the fetch outcome of each account.
SyncAll(accts, u, outs, t) ==
    [id \in Ids(accts) |->
        IF accts[id].userId = u /\ accts[id].isActive
        THEN SyncOne(accts[id], outs[id], t)
        ELSE accts[id]]

\* The outcome of the most recent sync attempt on an account.
NoAttempt == "none"

Attempted(ok) == IF ok THEN "ok" ELSE "failed"

(***************************************************************************)
(* The scheduled job.                                                      *)
(***************************************************************************)
IdleCycle ==
    [pc |-> "idle", loaded |-> <<>>, i |-> 0, settled |-> {}, fetched |-> {},
     merged |-> {}, caught |-> {}, successCount |-> 0, errorCount |-> 0,
     delays |-> 0, result |-> "none", returned |-> {}, victim |-> 0,
     storageDown |-> FALSE]

\* The filter { isActive: true, lastSyncedAt: { $lt: now - 6h } }.  The schema
\* declares no lastSyncedAt: a build whose query filters are strict drops the
\* clause; otherwise it is sent as written and matches only a stored value.
ScheduledFilter(doc, t) ==
    /\ doc.isActive
    /\ strictQuery \/ (\E d \in doc.lastSyncedAt : d < t - StaleHours)

RECURSIVE Load(_, _, _)
Load(accts, from, t) ==
    IF from > Len(accts) THEN <<>>
    ELSE IF ScheduledFilter(accts[from], t)
         THEN <<[id |-> from, doc |-> accts[from]]>> \o Load(accts, from + 1, t)
         ELSE Load(accts, from + 1, t)

\* PlatformAccount.find(filter): the documents as loaded at the start of the cycle
FindScheduled(accts, t) == Load(accts, 1, t)

\* platformAccounts.slice(i, i + batchSize), as indices of the loaded list
Batch(c) == {k \in 1..Len(c.loaded) : c.i < k /\ k <= c.i + batchSize}

ScheduledOutcomes(platform) ==
    {[kind |-> "fetchError"], [kind |-> "saveError"]}
        \cup {[kind |-> "ok", stats |-> r] : r \in SimulatedStats(platform)}

\* account.stats = {..}; await account.save(): the merge into the loaded
\* document, written to the collection.
ScheduledSave(accts, ld, updatedStats, t) ==
    [accts EXCEPT ![ld.id].stats =
        PreSave(CastStats(ScheduledMerge(ld.doc.stats, updatedStats, t)))]

\* The object handed to StatsHistory.create
HistoryEntry(ld, updatedStats, t) ==
    [userId |-> ld.doc.userId, platform |-> ld.doc.platformName,
     date |-> t, stats |-> updatedStats]

\* The body of the per-account callback: fetch, merge into the loaded
\* document, save (only the modified path stats is written), create the
\* history entry, update the score.  success is FALSE when a step threw.
ScheduledCallback(accts, hist, usrs, ld, o, t) ==
    IF o.kind # "ok"
    THEN [accounts |-> accts, history |-> hist, users |-> usrs, success |-> FALSE]
    ELSE LET saved == ScheduledSave(accts, ld, o.stats, t)
             entry == HistoryEntry(ld, o.stats, t)
         IN  IF HistoryCreateValid(entry)
             THEN [accounts |-> saved,
                   history |-> Append(hist, HistoryCast(entry)),
                   users |-> updateUserCScore(saved, usrs, ld.doc.userId),
                   success |-> TRUE]
             ELSE [accounts |-> saved, history |-> hist, users |-> usrs,
                   success |-> FALSE]

\* The step at which a callback that did not succeed threw.
ThrownAt(o) == IF o.kind = "ok" THEN "historyCreate" ELSE o.kind

TryCoversAllButFetch(step) == step # "fetchError"

\* try { fetch; merge; save; create; score } catch: every step of the
\* callback is inside the try block.
TryCovers(step) == step \in {"fetchError", "saveError", "historyCreate"}

\* catch (error) { errorCount++; logger.error(..) }
OnAccountError(c) == [c EXCEPT !.errorCount = @ + 1]

OnAccountSuccess(c) == [c EXCEPT !.successCount = @ + 1]

\* The outer catch: an error that escapes a callback rejects Promise.all,
\* ends the loop, is logged, and the function returns.
OnCycleError(c) == [c EXCEPT !.pc = "done", !.result = "returned"]

CanProcess(c, k) == c.pc = "batch" /\ k \in Batch(c) \ c.settled

\* One callback of one run: the collections and the job state after it.
RunCallback(c, accts, hist, usrs, k, o, t) ==
    IF ~CanProcess(c, k)
    THEN [cycle |-> c, accounts |-> accts, history |-> hist, users |-> usrs]
    ELSE LET res == ScheduledCallback(accts, hist, usrs, c.loaded[k], o, t)
             c1 == [c EXCEPT !.settled = @ \cup {k},
                             !.fetched = @ \cup {k},
                             !.merged = IF o.kind = "ok" THEN @ \cup {k} ELSE @,
                             !.storageDown = @ \/ o.kind = "saveError",
                             !.caught = IF res.success THEN @ ELSE @ \cup {k}]
         IN  [cycle |-> IF res.success THEN OnAccountSuccess(c1)
                        ELSE IF TryCovers(ThrownAt(o)) THEN OnAccountError(c1)
                        ELSE OnCycleError(c1),
              accounts |-> res.accounts, history |-> res.history,
              users |-> res.users]

CanEndBatch(c) == c.pc = "batch" /\ Batch(c) \subseteq c.settled

\* A delay after every batch, the last one included.
DelayAfterEveryBatch(c) == TRUE

\* if (i + batchSize < platformAccounts.length) await the 2000 ms delay
DelayAfterBatch(c) == c.i + batchSize < Len(c.loaded)

\* for (..; i < platformAccounts.length; i += batchSize), after the increment
LoopContinues(c) == c.i + batchSize < Len(c.loaded)

\* await Promise.all(batchPromises), the inter-batch delay, the loop's step;
\* after the last batch the function logs the counts and returns nothing.
RunEndBatch(c) ==
    IF ~CanEndBatch(c) THEN c
    ELSE LET d == IF DelayAfterBatch(c) THEN 1 ELSE 0 IN
         IF LoopContinues(c)
         THEN [c EXCEPT !.delays = @ + d, !.i = @ + batchSize, !.settled = {}]
         ELSE [c EXCEPT !.delays = @ + d, !.i = @ + batchSize, !.pc = "done",
                        !.result = "returned", !.returned = {}]

(***************************************************************************)
(* Initial state.                                                          *)
(***************************************************************************)
Init ==
    /\ accounts = <<>>
    /\ users = [u \in Users |-> DefaultUser]
    /\ history = <<>>
    /\ now = 0
    /\ requests = 0
    /\ cycle = IdleCycle
    /\ attempt = <<>>
    /\ twin = [accounts |-> <<>>, cycle |-> IdleCycle]
    /\ strictQuery \in BOOLEAN
    /\ trial = [op |-> "none"]
    /\ snapshotCalls = <<>>
    /\ linkCalls = <<>>

(***************************************************************************)
(* Actions: HTTP requests.                                                 *)
(***************************************************************************)
\* POST /api/profile/platforms
AddPlatformAccount(u, p) ==
    /\ requests < MaxRequests
    /\ Authenticated(users, u)
    /\ Len(accounts) < MaxAccounts
    /\ accounts' = AddAccount(accounts, u, p, now)
    /\ twin' = [twin EXCEPT !.accounts = AddAccount(@, u, p, now)]
    /\ attempt' = IF Len(accounts') > Len(accounts)
                  THEN Append(attempt, NoAttempt) ELSE attempt
    /\ requests' = requests + 1
    /\ UNCHANGED <<linkCalls, snapshotCalls, users, history, now, cycle, strictQuery, trial>>

\* DELETE /api/profile/platforms/:platformId
RemovePlatformAccount(id) ==
    /\ requests < MaxRequests
    /\ id \in Ids(accounts)
    /\ Authenticated(users, accounts[id].userId)
    /\ accounts[id].isActive
    /\ accounts' = RemoveAccount(accounts, id)
    /\ twin' = [twin EXCEPT !.accounts = RemoveAccount(@, id)]
    /\ requests' = requests + 1
    /\ UNCHANGED <<linkCalls, snapshotCalls, users, history, now, cycle, attempt, strictQuery, trial>>

\* DELETE /api/profile: the user and all of the user's accounts are
\* deactivated.
DeleteProfile(u) ==
    /\ requests < MaxRequests
    /\ Authenticated(users, u)
    /\ users' = [users EXCEPT ![u].isActive = FALSE]
    /\ accounts' = DeactivateAccounts(accounts, u)
    /\ twin' = [twin EXCEPT !.accounts = DeactivateAccounts(@, u)]
    /\ requests' = requests + 1
    /\ UNCHANGED <<linkCalls, snapshotCalls, history, now, cycle, attempt, strictQuery, trial>>

\* PUT /api/stats/update
UpdateStatsRequest(u, p, stats) ==
    /\ requests < MaxRequests
    /\ Authenticated(users, u)
    /\ \E id \in FindActive(accounts, u, p) :
        /\ accounts' = [accounts EXCEPT ![id] = updateStats(@, stats, now)]
        /\ twin' = [twin EXCEPT !.accounts[id] = updateStats(@, stats, now)]
        /\ attempt' = [attempt EXCEPT ![id] = Attempted(TRUE)]
    /\ users' = updateUserTotalCScore(accounts', users, u)
    /\ requests' = requests + 1
    /\ UNCHANGED <<linkCalls, snapshotCalls, history, now, cycle, strictQuery, trial>>

\* POST /api/stats/sync/:platform
SyncPlatform(u, p, o) ==
    /\ requests < MaxRequests
    /\ Authenticated(users, u)
    /\ \E id \in FindActive(accounts, u, p) :
        /\ accounts' = [accounts EXCEPT ![id] = SyncOne(@, o, now)]
        /\ twin' = [twin EXCEPT !.accounts[id] = SyncOne(@, o, now)]
        /\ attempt' = [attempt EXCEPT ![id] = Attempted(o.ok)]
    /\ users' = IF o.ok THEN updateUserTotalCScore(accounts', users, u) ELSE users
    /\ requests' = requests + 1
    /\ UNCHANGED <<linkCalls, snapshotCalls, history, now, cycle, strictQuery, trial>>

\* POST /api/stats/sync
SyncAllPlatforms(u, outs) ==
    /\ requests < MaxRequests
    /\ Authenticated(users, u)
    /\ Len(ActiveAccountsOf(accounts, u)) > 0
    /\ accounts' = SyncAll(accounts, u, outs, now)
    /\ twin' = [twin EXCEPT !.accounts = SyncAll(@, u, outs, now)]
    /\ attempt' = [id \in Ids(accounts) |->
                      IF accounts[id].userId = u /\ accounts[id].isActive
                      THEN Attempted(outs[id].ok)
                      ELSE attempt[id]]
    /\ users' = updateUserTotalCScore(accounts', users, u)
    /\ requests' = requests + 1
    /\ UNCHANGED <<linkCalls, snapshotCalls, history, now, cycle, strictQuery, trial>>

(***************************************************************************)
(* Actions: the scheduled cycle (cron.schedule -> updateAllUserStats).     *)
(***************************************************************************)
\* The find and the loop's entry.  victim names the loaded account into which
\* a fetch failure is injected (0: none); twin restarts as a copy of the run.
StartCycle ==
    /\ cycle.pc \in {"idle", "done"}
    /\ twin.cycle.pc \in {"idle", "done"}
    /\ requests < MaxRequests
    /\ LET sel == FindScheduled(accounts, now) IN
       \E v \in 0..Len(sel) :
          cycle' = [IdleCycle EXCEPT
                       !.pc = IF Len(sel) = 0 THEN "done" ELSE "batch",
                       !.result = IF Len(sel) = 0 THEN "returned" ELSE "none",
                       !.loaded = sel,
                       !.victim = v]
    /\ twin' = [accounts |-> accounts, cycle |-> cycle']
    /\ requests' = requests + 1
    /\ UNCHANGED <<linkCalls, snapshotCalls, accounts, users, history, now, attempt, strictQuery, trial>>

\* One callback of batch.map(async (account) => {..}), from fetch to settle.
\* The victim's fetch fails in the run and succeeds in twin; every other
\* account gets the same outcome in both.
ProcessAccount(k) ==
    /\ CanProcess(cycle, k) \/ CanProcess(twin.cycle, k)
    /\ \E o \in ScheduledOutcomes(cycle.loaded[k].doc.platformName),
          r \in SimulatedStats(cycle.loaded[k].doc.platformName) :
       LET injected == k = cycle.victim
           mine == IF injected THEN [kind |-> "fetchError"] ELSE o
           other == IF injected THEN [kind |-> "ok", stats |-> r] ELSE o
           run == RunCallback(cycle, accounts, history, users, k, mine, now)
           ref == RunCallback(twin.cycle, twin.accounts, history, users, k, other, now)
           id == cycle.loaded[k].id
       IN /\ accounts' = run.accounts
          /\ history' = run.history
          /\ users' = run.users
          /\ cycle' = run.cycle
          /\ twin' = [accounts |-> ref.accounts, cycle |-> ref.cycle]
          /\ attempt' = IF CanProcess(cycle, k)
                        THEN [attempt EXCEPT ![id] = Attempted(mine.kind = "ok")]
                        ELSE attempt
    /\ UNCHANGED <<linkCalls, snapshotCalls, now, requests, strictQuery, trial>>

EndBatch ==
    /\ CanEndBatch(cycle) \/ CanEndBatch(twin.cycle)
    /\ cycle' = RunEndBatch(cycle)
    /\ twin' = [twin EXCEPT !.cycle = RunEndBatch(@)]
    /\ UNCHANGED <<linkCalls, snapshotCalls, accounts, users, history, now, requests, attempt, strictQuery,
                   trial>>

Tick ==
    /\ now + TickHours <= MaxClock
    /\ now' = now + TickHours
    /\ UNCHANGED <<linkCalls, snapshotCalls, accounts, users, history, requests, cycle, attempt, twin,
                   strictQuery, trial>>

Next ==
    \/ \E u \in Users, p \in PlatformNames : AddPlatformAccount(u, p)
    \/ \E id \in Ids(accounts) : RemovePlatformAccount(id)
    \/ \E u \in Users : DeleteProfile(u)
    \/ \E u \in Users, p \in PlatformNames, m \in RawMetrics :
          UpdateStatsRequest(u, p, m)
    \/ \E u \in Users, p \in PlatformNames, o \in SyncPlatformDataOutcomes :
          SyncPlatform(u, p, o)
    \/ \E u \in Users, outs \in [Ids(accounts) -> SyncPlatformDataOutcomes] :
          SyncAllPlatforms(u, outs)
    \/ StartCycle
    \/ \E k \in 1..Len(cycle.loaded) : ProcessAccount(k)
    \/ EndBatch
    \/ Tick

Spec == Init /\ [][Next]_vars


(***************************************************************************)
(* Pure functions applied to bounded inputs.                               *)
(***************************************************************************)
\* Stored stats a merge may start from.
ExistingStats ==
    {DefaultStats,
     [DefaultStats EXCEPT !.totalProblemsSolved = 100, !.contestRating = 1600,
                          !.streak = [current |-> 5, max |-> 15],
                          !.submissionStats = [totalSubmissions |-> 4,
                                               acceptedSubmissions |-> 3,
                                               acceptanceRate |-> 75]]}

\* What each merging path is handed: the scheduled cycle merges the result
\* of simulateStatsFetch, updateStats the result of syncPlatformData.
MergeInputs(path) ==
    IF path = "scheduled" THEN UNION {SimulatedStats(p) : p \in PlatformNames}
    ELSE RawMetrics

\* Accounts as the score computation reads them: <<problems, rating, streak.max>>
ScoreShapes ==
    {[stats |-> [DefaultStats EXCEPT !.totalProblemsSolved = x[1],
                                     !.contestRating = x[2],
                                     !.streak.max = x[3]]] :
        x \in {<<100, 1500, 10>>, <<50, 1600, 5>>, <<0, 0, 0>>, <<50, 0, 15>>}}

ScoreInputs == UNION {[1..n -> ScoreShapes] : n \in 0..MaxScoreAccounts}

\* The merge of one path, cast to the schema as the assignment to stats does.
TryMerge ==
    /\ \E e \in ExistingStats, path \in {"scheduled", "updateStats"} :
       \E inc \in MergeInputs(path) :
          trial' = [op |-> "merge", path |-> path, existing |-> e, incoming |-> inc,
                    merged |-> CastStats(IF path = "scheduled"
                                         THEN ScheduledMerge(e, inc, now)
                                         ELSE UpdateStatsMerge(e, inc))]
    /\ UNCHANGED <<linkCalls, snapshotCalls, accounts, users, history, now, requests, cycle, attempt, twin,
                   strictQuery>>

\* scheduledTasks.updateUserCScore on a list of active accounts: the score it
\* passes to the update (none for an empty list).
TryScore ==
    /\ \E accts \in ScoreInputs :
          trial' = [op |-> "score", accounts |-> accts,
                    cScore |-> IF Len(accts) = 0 THEN {} ELSE {cScoreOf(accts)}]
    /\ UNCHANGED <<linkCalls, snapshotCalls, accounts, users, history, now, requests, cycle, attempt, twin,
                   strictQuery>>

NextFn == TryMerge \/ TryScore

SpecFn == Init /\ [][NextFn]_vars

(***************************************************************************)
(* Properties.                                                             *)
(***************************************************************************)
\* What the isolation contract observes of an account.
Observed(doc) ==
    [syncStatus |-> doc.syncStatus, lastSyncedAt |-> doc.lastSyncedAt,
     stats |-> doc.stats]

BothDone == cycle.pc = "done" /\ twin.cycle.pc = "done"

C3_FailedAccountUnchanged ==
    [][\A k \in cycle'.caught \ cycle.caught :
          LET id == cycle.loaded[k].id
          IN  /\ accounts'[id].stats = accounts[id].stats
              /\ accounts'[id].lastSyncedAt = accounts[id].lastSyncedAt]_vars

\* C4: an account's syncStatus tells how its most recent sync attempt ended:
\* success with no lastSyncError when the fetch and the merge succeeded,
\* error with a lastSyncError when the attempt failed.  (The clause on
\* lastSyncedAt is not part of the formula.)
C4_StatusReflectsLastAttempt ==
    \A id \in Ids(accounts) :
        /\ attempt[id] = "ok" =>
              accounts[id].syncStatus = "success" /\ accounts[id].lastSyncError = {}
        /\ attempt[id] = "failed" =>
              accounts[id].syncStatus = "error" /\ accounts[id].lastSyncError # {}

\* The composite score as the contract defines it: the rating is averaged
\* over the accounts with contestRating > 0, and is 0 when there is none.
RatedAccounts(platformAccounts) ==
    LET Rated(a) == a.stats.contestRating > 0 IN SelectSeq(platformAccounts, Rated)

CompositeScore(platformAccounts) ==
    LET rated == RatedAccounts(platformAccounts)
        base == SumProblems(platformAccounts) * 10
                    + MaxStreak(platformAccounts) * 20
                    + Len(platformAccounts) * 50
    IN  IF Len(rated) = 0 THEN base
        ELSE MathRound(base * (2 * Len(rated)) + SumRating(rated), 2 * Len(rated))

\* C5: for any non-empty list of active accounts the score that
\* updateUserCScore writes is round(totalProblems*10 + avgRating*0.5
\* + maxStreak*20 + accountCount*50) with avgRating the mean contestRating of
\* the accounts whose contestRating is positive.
C5_ScoreFormula ==
    (trial.op = "score" /\ Len(trial.accounts) > 0) =>
        trial.cScore = {CompositeScore(trial.accounts)}

\* The values a score aggregator may give for a list of accounts: the
\* contract's formula, or the scheduled job's formula.
AggregatorValues(platformAccounts) ==
    {CompositeScore(platformAccounts)}
        \cup IF Len(platformAccounts) = 0 THEN {} ELSE {cScoreOf(platformAccounts)}

\* C6: a step that changes an account's metrics, by any path, leaves the
\* owning user's stored score equal to the aggregator's value over the user's
\* active accounts.
C6_ScoreFollowsMerge ==
    [][\A id \in Ids(accounts) :
          accounts'[id].stats # accounts[id].stats =>
              users'[accounts[id].userId].totalCScore
                  \in AggregatorValues(ActiveAccountsOf(accounts', accounts[id].userId))]_vars

\* The top-level counters of fetched metrics: the schema's counters and the
\* submission total.
TopLevelCounters == StatsCounterPaths \cup {"totalSubmissions"}

\* Where a merged document holds a top-level counter.
StoredCounter(merged, c) ==
    IF c = "totalSubmissions"
    THEN {merged.submissionStats.totalSubmissions}
             \cup (IF c \in DOMAIN merged THEN {merged[c]} ELSE {})
    ELSE IF c \in DOMAIN merged THEN {merged[c]} ELSE {}

\* The value a field of a nested group has after a field-by-field merge.
NestedExpected(existing, incoming, g, f) ==
    IF g \in DOMAIN incoming /\ f \in DOMAIN incoming[g]
    THEN incoming[g][f] ELSE existing[g][f]

\* C7: in each merging path, a top-level counter present in the incoming
\* metrics takes the incoming value, an absent one keeps the existing value,
\* and the fields of submissionStats and streak are merged one by one.
C7_MergeContract ==
    trial.op = "merge" =>
        /\ \A c \in TopLevelCounters :
              IF c \in DOMAIN trial.incoming
              THEN trial.incoming[c] \in StoredCounter(trial.merged, c)
              ELSE c \in StatsCounterPaths => trial.merged[c] = trial.existing[c]
        /\ \A f \in StreakPaths :
              /\ f \in DOMAIN trial.merged.streak
              /\ trial.merged.streak[f]
                    = NestedExpected(trial.existing, trial.incoming, "streak", f)
        /\ \A f \in SubmissionStatsPaths \ {"acceptanceRate"} :
              /\ f \in DOMAIN trial.merged.submissionStats
              /\ trial.merged.submissionStats[f]
                    = NestedExpected(trial.existing, trial.incoming, "submissionStats", f)

\* C8: every stored acceptance rate is in 0..100, is
\* round(accepted/total*100) when total > 0, and is 0 when total = 0.
C8_AcceptanceRate ==
    \A id \in Ids(accounts) :
        LET s == accounts[id].stats.submissionStats IN
        /\ s.acceptanceRate \in 0..100
        /\ s.totalSubmissions > 0 =>
              s.acceptanceRate = MathRound(s.acceptedSubmissions * 100, s.totalSubmissions)
        /\ s.totalSubmissions = 0 => s.acceptanceRate = 0

\* C9: a finished cycle has returned the summary {total, success, error}:
\* the number of selected accounts, of those whose fetch and merge succeeded,
\* and of those that failed.
C9_CycleSummary ==
    cycle.pc = "done" =>
        cycle.returned = {[total |-> Len(cycle.loaded),
                           success |-> Cardinality(cycle.merged),
                           error |-> Len(cycle.loaded) - Cardinality(cycle.merged)]}

\* The time of an account's last sync, read as widely as the documents allow:
\* a stored lastSyncedAt, or lastUpdated.
LastSynced(doc) == doc.lastSyncedAt \cup {doc.lastUpdated}

\* The accounts the contract has a cycle select at time t: active, and either
\* last synced more than StaleHours ago or never synced.
DueAccounts(accts, t) ==
    {id \in Ids(accts) :
        /\ accts[id].isActive
        /\ \/ \E d \in LastSynced(accts[id]) : d < t - StaleHours
           \/ accts[id].syncStatus \in {"never", "pending"}}

\* C10: a cycle selects exactly the active accounts that are stale or were
\* never synced.
C10_SelectsDueAccounts ==
    [][(cycle'.pc # cycle.pc /\ cycle.pc \in {"idle", "done"}) =>
          {cycle'.loaded[k].id : k \in 1..Len(cycle'.loaded)}
              = DueAccounts(accounts, now)]_vars

(***************************************************************************)
(* StatsHistory statics: createSnapshot and getGrowthMetrics.              *)
(***************************************************************************)
MaxSnapshots == 3          \* StatsHistory documents and createSnapshot calls in flight

HoursPerDay == 24          \* 24 * 60 * 60 * 1000 ms
WeekHours == 7 * HoursPerDay
MonthHours == 30 * HoursPerDay

\* The instants at which the history is written or read (hours): a day's
\* start and noon, one week later, thirty days later.
ClockPoints == {0, 12, WeekHours, MonthHours}

\* The platform whose history is written and read.
HistoryPlatforms == {"leetcode"}

\* today.setHours(0, 0, 0, 0)
StartOfDay(t) == t - (t % HoursPerDay)

\* The paths of statsHistorySchema.stats that the growth metrics read, with
\* their defaults.
DefaultSnapshotStats ==
    [problemsSolved |-> [total |-> 0], contestRating |-> 0,
     contestsParticipated |-> 0]

\* Assigning stats on a StatsHistory document: cast to the schema.
CastSnapshotStats(obj) ==
    LET top == Spread(DefaultSnapshotStats, Pick(obj, DOMAIN DefaultSnapshotStats))
    IN  [top EXCEPT !.problemsSolved =
            Spread(DefaultSnapshotStats.problemsSolved, Pick(@, {"total"}))]

\* Stats that callers hand to createSnapshot.
SnapshotInputs ==
    {[problemsSolved |-> [total |-> 10], contestRating |-> 1400,
      contestsParticipated |-> 1],
     [problemsSolved |-> [total |-> 25], contestRating |-> 1380,
      contestsParticipated |-> 3]}

\* createSnapshot, the filter of its findOne: same user, platform and type,
\* dated within today.
TodaysSnapshots(hist, u, p, type, t) ==
    {id \in 1..Len(hist) :
        /\ hist[id].userId = u
        /\ hist[id].platformName = p
        /\ hist[id].snapshotType = type
        /\ hist[id].date >= StartOfDay(t)
        /\ hist[id].date < StartOfDay(t) + HoursPerDay}

\* createSnapshot after its findOne: existing holds the document found.
SnapshotCall(u, p, stats, existing) ==
    [userId |-> u, platformName |-> p, stats |-> stats, snapshotType |-> "daily",
     existing |-> existing]

\* createSnapshot from the if on: update the document found, or create one.
SnapshotWrite(hist, c, t) ==
    IF c.existing # {}
    THEN LET id == CHOOSE id \in c.existing : TRUE
         IN  [hist EXCEPT ![id].stats = CastSnapshotStats(c.stats), ![id].date = t]
    ELSE Append(hist, HistoryCast([userId |-> c.userId,
                                   platformName |-> c.platformName,
                                   stats |-> CastSnapshotStats(c.stats),
                                   snapshotType |-> c.snapshotType,
                                   date |-> t]))

\* The sequence without its i-th element.
RemoveAt(seq, i) == SubSeq(seq, 1, i - 1) \o SubSeq(seq, i + 1, Len(seq))

\* A set with at most one element as the set of its options: {} when empty.
Options(S) == IF S = {} THEN {{}} ELSE {{x} : x \in S}

StrictlyBefore(date, cutoff) == date < cutoff

\* date: { $lte: cutoff }
AtOrBefore(date, cutoff) == date <= cutoff

\* findOne(filter).sort({ date: -1 }): the documents of the user and the
\* platform, dated at or before the cutoff if there is one, of the latest date.
FindLatest(hist, u, p, cutoff) ==
    LET match == {id \in 1..Len(hist) :
                     /\ hist[id].userId = u
                     /\ hist[id].platformName = p
                     /\ \A c \in cutoff : AtOrBefore(hist[id].date, c)}
    IN  {id \in match : \A j \in match : hist[j].date <= hist[id].date}

ZeroGrowth == [problems |-> 0, rating |-> 0, contests |-> 0]

\* The body of if (currentData && xAgoData)
GrowthBetween(hist, cur, ago) ==
    IF cur = {} \/ ago = {} THEN ZeroGrowth
    ELSE LET c == hist[CHOOSE id \in cur : TRUE].stats
             a == hist[CHOOSE id \in ago : TRUE].stats
         IN  [problems |-> c.problemsSolved.total - a.problemsSolved.total,
              rating |-> c.contestRating - a.contestRating,
              contests |-> c.contestsParticipated - a.contestsParticipated]

\* getGrowthMetrics: the results it can return (documents of equal date are
\* returned in either order).
getGrowthMetrics(hist, u, p, t) ==
    {[monthly |-> GrowthBetween(hist, cur, monthAgo),
      weekly |-> GrowthBetween(hist, cur, weekAgo)] :
        cur \in Options(FindLatest(hist, u, p, {})),
        monthAgo \in Options(FindLatest(hist, u, p, {t - MonthHours})),
        weekAgo \in Options(FindLatest(hist, u, p, {t - WeekHours}))}

\* createSnapshot up to the result of its findOne
BeginCreateSnapshot(u, p, stats) ==
    /\ Len(history) + Len(snapshotCalls) < MaxSnapshots
    /\ \E existing \in Options(TodaysSnapshots(history, u, p, "daily", now)) :
          snapshotCalls' = Append(snapshotCalls, SnapshotCall(u, p, stats, existing))
    /\ UNCHANGED <<linkCalls, accounts, users, history, now, requests, cycle, attempt, twin,
                   strictQuery, trial>>

\* createSnapshot from its save or create to its return
FinishCreateSnapshot(i) ==
    /\ history' = SnapshotWrite(history, snapshotCalls[i], now)
    /\ snapshotCalls' = RemoveAt(snapshotCalls, i)
    /\ UNCHANGED <<linkCalls, accounts, users, now, requests, cycle, attempt, twin,
                   strictQuery, trial>>

\* GET /api/stats/growth
GetGrowthMetrics(u, p) ==
    /\ \E g \in getGrowthMetrics(history, u, p, now) :
          trial' = [op |-> "growth", userId |-> u, platformName |-> p, growth |-> g]
    /\ UNCHANGED <<linkCalls, accounts, users, history, now, requests, cycle, attempt, twin,
                   strictQuery, snapshotCalls>>

AdvanceClock ==
    /\ \E t \in ClockPoints : t > now /\ now' = t
    /\ UNCHANGED <<linkCalls, accounts, users, history, requests, cycle, attempt, twin,
                   strictQuery, trial, snapshotCalls>>

NextHistory ==
    \/ \E u \in Users, p \in HistoryPlatforms, stats \in SnapshotInputs :
          BeginCreateSnapshot(u, p, stats)
    \/ \E i \in 1..Len(snapshotCalls) : FinishCreateSnapshot(i)
    \/ \E u \in Users, p \in HistoryPlatforms : GetGrowthMetrics(u, p)
    \/ AdvanceClock

SpecHistory == Init /\ [][NextHistory]_vars

\* C11: there is at most one snapshot per user, platform and calendar day,
\* whatever createSnapshot calls ran, one after the other or concurrently.
C11_OneSnapshotPerDay ==
    \A i, j \in 1..Len(history) :
        (/\ history[i].userId = history[j].userId
         /\ history[i].platformName = history[j].platformName
         /\ StartOfDay(history[i].date) = StartOfDay(history[j].date)) => i = j

\* C12: a step that merges metrics into an account, in the scheduled cycle
\* or on demand, leaves a snapshot of that user and platform dated today.
\* (That its stats are the merged metrics is not part of the formula.)
C12_MergeWritesSnapshot ==
    [][\A id \in Ids(accounts) :
          accounts'[id].stats # accounts[id].stats =>
              \E h \in 1..Len(history') :
                  /\ history'[h].userId = accounts[id].userId
                  /\ history'[h].platformName = accounts[id].platformName
                  /\ StartOfDay(history'[h].date) = StartOfDay(now')]_vars

\* The value of a metric in a snapshot.
MetricOf(entry, metric) ==
    CASE metric = "problems" -> entry.stats.problemsSolved.total
      [] metric = "rating" -> entry.stats.contestRating
      [] metric = "contests" -> entry.stats.contestsParticipated

WindowHours(window) == IF window = "weekly" THEN 7 * 24 ELSE 30 * 24

\* The snapshots of a user and a platform that no snapshot of theirs in the
\* set S is dated after.
MostRecentIn(hist, S) == {i \in S : ~\E j \in S : hist[j].date > hist[i].date}

\* growth(window, metric) by the contract: latest value minus the value of
\* the most recent snapshot at or before now - window; 0 without one.
ExpectedGrowth(hist, u, p, t, window, metric) ==
    LET own == {i \in 1..Len(hist) : hist[i].userId = u /\ hist[i].platformName = p}
        old == {i \in own : hist[i].date + WindowHours(window) <= t}
    IN  IF old = {} THEN {0}
        ELSE {MetricOf(hist[l], metric) - MetricOf(hist[b], metric) :
                 l \in MostRecentIn(hist, own), b \in MostRecentIn(hist, old)}

\* C13: each growth metric that getGrowthMetrics returns, weekly and monthly,
\* is the latest snapshot's value minus the value of the most recent snapshot
\* at or before now - window, and 0 when there is no such snapshot.
C13_GrowthMetrics ==
    [][(trial' # trial /\ trial'.op = "growth") =>
          \A window \in {"weekly", "monthly"}, metric \in {"problems", "rating", "contests"} :
              trial'.growth[window][metric]
                  \in ExpectedGrowth(history, trial'.userId, trial'.platformName,
                                     now, window, metric)]_vars

\* A lookup whose baseline is a snapshot dated exactly one week before: the
\* weekly growth is not 0 while the monthly growth is.
C13_Witness ==
    /\ trial.op = "growth"
    /\ now = WeekHours
    /\ trial.growth.weekly.problems # 0
    /\ trial.growth.monthly.problems = 0
    /\ \E i \in 1..Len(history) : history[i].date = 0

(***************************************************************************)
(* addPlatformAccount step by step: its findOne, then its create.          *)
(***************************************************************************)
NoUniqueIndex(accts, u, p) == FALSE

\* index({ userId: 1, platformName: 1 }, { unique: true }): an insert is
\* rejected when a document of the pair exists, active or not.
UniqueIndexRejects(accts, u, p) ==
    \E id \in Ids(accts) : accts[id].userId = u /\ accts[id].platformName = p

\* PlatformAccount.create({..., syncStatus: 'pending'})
CreateAccount(accts, u, p, t) ==
    IF UniqueIndexRejects(accts, u, p) THEN accts ELSE Append(accts, NewAccount(u, p, t))

\* The user has a removed (deactivated) account of the platform.
HasRemoved(accts, u, p) ==
    \E id \in Ids(accts) :
        accts[id].userId = u /\ accts[id].platformName = p /\ ~accts[id].isActive

\* addPlatformAccount up to its check of existingAccount: 400 when an active
\* account of the platform was found.  afterRemoval notes that the request
\* was made when a removed account of the platform was stored.
BeginAddPlatformAccount(u, p) ==
    /\ requests < MaxRequests
    /\ Authenticated(users, u)
    /\ Len(accounts)
          + Cardinality({i \in 1..Len(linkCalls) : linkCalls[i].pc = "checked"})
          < MaxAccounts
    /\ linkCalls' = Append(linkCalls,
                           [userId |-> u, platformName |-> p,
                            pc |-> IF FindActive(accounts, u, p) # {}
                                   THEN "alreadyLinked" ELSE "checked",
                            afterRemoval |-> HasRemoved(accounts, u, p)])
    /\ requests' = requests + 1
    /\ UNCHANGED <<accounts, users, history, now, cycle, attempt, twin,
                   strictQuery, trial, snapshotCalls>>

\* addPlatformAccount from its create on
FinishAddPlatformAccount(i) ==
    /\ i \in 1..Len(linkCalls)
    /\ linkCalls[i].pc = "checked"
    /\ LET u == linkCalls[i].userId
           p == linkCalls[i].platformName
       IN  /\ accounts' = CreateAccount(accounts, u, p, now)
           /\ twin' = [twin EXCEPT !.accounts = CreateAccount(@, u, p, now)]
           /\ attempt' = IF Len(accounts') > Len(accounts)
                         THEN Append(attempt, NoAttempt) ELSE attempt
           /\ linkCalls' = [linkCalls EXCEPT ![i].pc =
                               IF Len(accounts') > Len(accounts)
                               THEN "created" ELSE "duplicateKey"]
    /\ UNCHANGED <<users, history, now, requests, cycle, strictQuery, trial,
                   snapshotCalls>>

NextLink ==
    \/ \E u \in Users, p \in PlatformNames : BeginAddPlatformAccount(u, p)
    \/ \E i \in 1..Len(linkCalls) : FinishAddPlatformAccount(i)
    \/ \E id \in Ids(accounts) : RemovePlatformAccount(id)

SpecLink == Init /\ [][NextLink]_vars

\* C14: there is at most one active account per user and platform, whatever
\* add and remove requests ran and however two adds interleaved.
C14_OneActiveAccount ==
    \A i, j \in Ids(accounts) :
        (/\ accounts[i].userId = accounts[j].userId
         /\ accounts[i].platformName = accounts[j].platformName
         /\ accounts[i].isActive
         /\ accounts[j].isActive) => i = j

\* Two add requests of one user for one platform both passed the check; one
\* created the account and the other was rejected.
C14_Witness ==
    \E i, j \in 1..Len(linkCalls) :
        /\ linkCalls[i].userId = linkCalls[j].userId
        /\ linkCalls[i].platformName = linkCalls[j].platformName
        /\ linkCalls[i].pc = "created"
        /\ linkCalls[j].pc = "duplicateKey"
        /\ FindActive(accounts, linkCalls[i].userId, linkCalls[i].platformName) # {}

(***************************************************************************)
(* Leaderboards (leaderboardController): queries on a stored state.        *)
(***************************************************************************)
MaxLimit == 2              \* largest value of the query parameter limit

BoardUsers == {"u1", "u2", "u3"}
BoardPlatform == "leetcode"
Categories == {"cscore", "problems", "rating", "streak"}

\* A User document as stored: the schema has settings.publicProfile and
\* totalCScore, and neither isPublic nor cScore.
BoardUser(public, score) ==
    [totalCScore |-> score, settings |-> [publicProfile |-> public]]

\* The totalCScore of the users in the stored states: u3 has the highest.
StoredScore(u) == IF u = "u1" THEN 10 ELSE IF u = "u2" THEN 20 ELSE 30

\* Users register, and link their accounts, in the order u1, u2, u3.
CreatedAt(u) == IF u = "u1" THEN 1 ELSE IF u = "u2" THEN 2 ELSE 3

\* A PlatformAccount document as the leaderboards read it.
BoardAccount(u, p, active, problems, rating, streakMax) ==
    [userId |-> u, platformName |-> p, isActive |-> active,
     stats |-> [DefaultStats EXCEPT !.totalProblemsSolved = problems,
                                    !.contestRating = rating,
                                    !.streak.max = streakMax]]

\* <<problems, rating, streak.max>> of the accounts in the stored states
BoardShapes == {<<100, 1600, 15>>, <<50, 0, 15>>}

\* Sequences that hold every element of S once.
Orderings(S) ==
    {q \in [1..Cardinality(S) -> S] : \A x \in S : \E i \in DOMAIN q : q[i] = x}

\* Stored states of the per-platform leaderboard: each user is public or
\* not and has no account, an active one or an inactive one of the platform;
\* the accounts are stored in any order.
PlatformStores ==
    UNION {
      UNION {
        {[users |-> [u \in BoardUsers |-> BoardUser(u \in pub, StoredScore(u))],
          accounts |-> [i \in DOMAIN order |->
                          BoardAccount(order[i], BoardPlatform,
                                       order[i] \notin inactive,
                                       shape[order[i]][1], shape[order[i]][2],
                                       shape[order[i]][3])]] :
            order \in Orderings(owners),
            inactive \in SUBSET owners,
            shape \in [owners -> BoardShapes]} :
        owners \in SUBSET BoardUsers} :
      pub \in SUBSET BoardUsers}

\* Stored states in which users have accounts of two platforms.
TwoPlatformStores ==
    {[users |-> [u \in BoardUsers |-> BoardUser(TRUE, StoredScore(u))],
      accounts |-> <<BoardAccount("u1", "leetcode", TRUE, 100, 1600, 15),
                     BoardAccount("u1", "codeforces", TRUE, 50, 0, 15),
                     BoardAccount("u2", "leetcode", TRUE, 50, 0, 15),
                     BoardAccount("u2", "codeforces", second, 100, 1600, 15)>>] :
        second \in BOOLEAN}

BoardStores == PlatformStores \cup TwoPlatformStores

\* stats.totalProblemsSolved | stats.contestRating | stats.streak.max
PlatformSortField(category) ==
    IF category = "problems" THEN "totalProblemsSolved"
    ELSE IF category = "rating" THEN "contestRating"
    ELSE IF category = "streak" THEN "streak.max"
    ELSE "totalProblemsSolved"

FieldOf(stats, field) ==
    IF field = "streak.max" THEN stats.streak.max ELSE stats[field]

\* A stable sort of records by their field key: ascending when dir = 1,
\* descending when dir = -1; records of equal key keep their order.
RECURSIVE StableSort(_, _)
StableSort(seq, dir) ==
    IF seq = <<>> THEN <<>>
    ELSE LET rest == StableSort(SubSeq(seq, 1, Len(seq) - 1), dir)
             x == seq[Len(seq)]
             Before(y) == dir * y.key <= dir * x.key
             After(y) == ~Before(y)
         IN  SelectSeq(rest, Before) \o <<x>> \o SelectSeq(rest, After)

\* Query.sort("stats.<field> -1"): Mongoose splits the string at spaces and
\* reads a leading '-' as descending, so the documents are sorted by
\* stats.<field> ascending and then by a path named 1, which none has.
SortStringDirection == 1

\* find({platformName, isActive: true}).sort(..): the matching accounts
FindPlatformSorted(store, platform, category) ==
    LET Match(a) == a.platformName = platform /\ a.isActive
        Keyed(a) == [key |-> FieldOf(a.stats, PlatformSortField(category)), doc |-> a]
        found == SelectSeq(store.accounts, Match)
    IN  StableSort([i \in DOMAIN found |-> Keyed(found[i])], SortStringDirection)

\* The first n elements: .limit(n), slice(0, n)
Take(seq, n) == SubSeq(seq, 1, IF n < Len(seq) THEN n ELSE Len(seq))

\* The paths of the User schema among those the leaderboards read.
BoardUserPaths == {"totalCScore", "settings", "createdAt", "username"}

\* populate('userId', '.. isPublic ..') and the read account.userId.isPublic:
\* a populated document exposes the paths of its schema.
IsPublicRead(user) ==
    LET doc == Pick(user, BoardUserPaths)
    IN  "isPublic" \in DOMAIN doc /\ doc.isPublic

\* getLeaderboard, platform-specific branch: sort, limit, then the filter on
\* the populated user, then the positions.
PlatformLeaderboard(store, platform, category, limit) ==
    LET limited == Take(FindPlatformSorted(store, platform, category), limit)
        Public(e) == IsPublicRead(store.users[e.doc.userId])
        shown == SelectSeq(limited, Public)
    IN  [i \in DOMAIN shown |->
            [userId |-> shown[i].doc.userId, value |-> shown[i].key, position |-> i]]

\* The two collections that the leaderboards read.
Stored == [users |-> users, accounts |-> accounts]

\* The leaderboards are queried on a stored state, which they do not change.
InitBoard ==
    /\ \E store \in BoardStores :
          /\ accounts = store.accounts
          /\ users = store.users
    /\ history = <<>>
    /\ now = 0
    /\ requests = 0
    /\ cycle = IdleCycle
    /\ attempt = <<>>
    /\ twin = [accounts |-> <<>>, cycle |-> IdleCycle]
    /\ strictQuery = TRUE
    /\ trial = [op |-> "none"]
    /\ snapshotCalls = <<>>
    /\ linkCalls = <<>>

\* The leaderboard requests read the stored state and write nothing: a
\* behaviour is one stored state and one request against it.

\* Array.findIndex over the ids of a list: the 0-based index of the first
\* element equal to id, -1 without one
FindIndex(ids, id) ==
    IF \E i \in DOMAIN ids : ids[i] = id
    THEN (CHOOSE i \in DOMAIN ids : ids[i] = id /\ \A j \in 1..(i - 1) : ids[j] # id) - 1
    ELSE -1

\* getLeaderboard, platform-specific branch, the viewer's position: null
\* without an active account, else findIndex + 1 in the filtered list.
PlatformUserPosition(store, platform, category, viewer) ==
    LET Mine(a) == a.userId = viewer /\ a.platformName = platform /\ a.isActive
        Public(e) == IsPublicRead(store.users[e.doc.userId])
        allAccounts == SelectSeq(FindPlatformSorted(store, platform, category), Public)
        owners == [i \in DOMAIN allAccounts |-> allAccounts[i].doc.userId]
    IN  IF SelectSeq(store.accounts, Mine) = <<>> THEN {}
        ELSE {FindIndex(owners, viewer) + 1}

\* GET /api/leaderboard?platform=..&category=..&limit=.. by a viewer
TryPlatformLeaderboard ==
    /\ trial.op = "none"
    /\ \E category \in Categories \ {"cscore"}, limit \in 1..MaxLimit,
          viewer \in BoardUsers :
          trial' = [op |-> "platformBoard", category |-> category, limit |-> limit,
                    viewer |-> viewer,
                    leaderboard |-> PlatformLeaderboard(Stored, BoardPlatform,
                                                        category, limit),
                    userPosition |-> PlatformUserPosition(Stored, BoardPlatform,
                                                          category, viewer)]
    /\ UNCHANGED <<accounts, users, history, now, requests, cycle, attempt, twin,
                   strictQuery, snapshotCalls, linkCalls>>

\* $lookup from platformaccounts on userId: every account document of the
\* user, active or not.
LookupPlatforms(store, u) ==
    LET Owned(a) == a.userId = u IN SelectSeq(store.accounts, Owned)

\* A common multiple of the numbers of accounts a user has in the stored
\* states: avgRating * AvgScale is an integer.
AvgScale == 2

\* The two $addFields stages: the $reduce over platforms, then avgRating
\* (kept as avgRating * AvgScale).
AggregatedStats(platforms) ==
    [totalProblems |-> SumProblems(platforms),
     totalRating |-> SumRating(platforms),
     platformCount |-> Len(platforms),
     maxStreak |-> MaxStreak(platforms),
     avgRatingScaled |-> IF Len(platforms) > 0
                         THEN (SumRating(platforms) * AvgScale) \div Len(platforms)
                         ELSE 0]

\* The value of the $sort key: cScore is not a field of a stored user, so
\* every document has the same (missing) key under category cscore.
OverallSortKey(category, agg) ==
    IF category = "cscore" THEN 0
    ELSE IF category = "problems" THEN agg.totalProblems
    ELSE IF category = "rating" THEN agg.avgRatingScaled
    ELSE agg.maxStreak

\* User.aggregate(pipeline) up to $sort: scan is the order in which the
\* collection yields the users, which decides the order of equal keys.
OverallRanking(store, scan, category) ==
    LET Entry(u) == [userId |-> u,
                     aggregatedStats |-> AggregatedStats(LookupPlatforms(store, u)),
                     key |-> OverallSortKey(category,
                                 AggregatedStats(LookupPlatforms(store, u)))]
        all == [i \in DOMAIN scan |-> Entry(scan[i])]
        HasPlatform(e) == e.aggregatedStats.platformCount > 0
    IN  StableSort(SelectSeq(all, HasPlatform), -1)

\* Math.round(((total - above) / total) * 100); not a number when total = 0
Percentile(total, above) ==
    IF total = 0 THEN {} ELSE {MathRound((total - above) * 100, total)}

\* getLeaderboard, overall branch: the page and the viewer's position
OverallLeaderboard(store, scan, category, limit, viewer) ==
    LET ranking == OverallRanking(store, scan, category)
        page == Take(ranking, limit)
        ids == [i \in DOMAIN ranking |-> ranking[i].userId]
    IN  [leaderboard |-> [i \in DOMAIN page |->
                             [userId |-> page[i].userId, key |-> page[i].key,
                              aggregatedStats |-> page[i].aggregatedStats,
                              position |-> i]],
         userPosition |-> {FindIndex(ids, viewer) + 1}]

\* getUserRank, overall branch
OverallRank(store, scan, category, viewer) ==
    LET allUsers == OverallRanking(store, scan, category)
        ids == [i \in DOMAIN allUsers |-> allUsers[i].userId]
        userIndex == FindIndex(ids, viewer)
    IN  [found |-> TRUE, position |-> {userIndex + 1}, total |-> Len(allUsers),
         percentile |-> Percentile(Len(allUsers), userIndex)]

\* The numbers of accounts that countDocuments({ [sortField]: { $gt: v } })
\* can count, v being userAccount.stats[sortField.split('.')[1]].  For
\* stats.streak.max that key is streak, so v is the nested streak object and
\* not a number: the filter matches no number (0 above), or its cast to the
\* path's type fails and the request ends in an error (no count).
UsersAbove(store, active, mine, field) ==
    IF field = "streak.max" THEN {{}, {0}}
    ELSE {{Cardinality({i \in active :
              FieldOf(store.accounts[i].stats, field) > FieldOf(mine.stats, field)})}}

\* getUserRank, platform branch: 404 without an active account; else two
\* countDocuments over the active accounts of the platform.  The results
\* that the request can have.
PlatformRank(store, platform, category, viewer) ==
    LET Mine(a) == a.userId = viewer /\ a.platformName = platform /\ a.isActive
        mine == SelectSeq(store.accounts, Mine)
        field == PlatformSortField(category)
        active == {i \in DOMAIN store.accounts :
                      /\ store.accounts[i].platformName = platform
                      /\ store.accounts[i].isActive}
        failed == [found |-> FALSE, position |-> {}, total |-> 0, percentile |-> {}]
    IN  IF mine = <<>> THEN {failed}
        ELSE {IF above = {} THEN failed
              ELSE LET usersAbove == CHOOSE n \in above : TRUE
                   IN  [found |-> TRUE, position |-> {usersAbove + 1},
                        total |-> Cardinality(active),
                        percentile |-> Percentile(Cardinality(active), usersAbove)] :
                 above \in UsersAbove(store, active, mine[1], field)}

\* GET /api/leaderboard?platform=overall&category=..&limit=.. by a viewer
TryOverallLeaderboard ==
    /\ trial.op = "none"
    /\ \E category \in Categories, limit \in 1..MaxLimit, viewer \in BoardUsers,
          scan \in Orderings(BoardUsers) :
          trial' = [op |-> "overallBoard", category |-> category, limit |-> limit,
                    viewer |-> viewer,
                    result |-> OverallLeaderboard(Stored, scan, category, limit, viewer)]
    /\ UNCHANGED <<accounts, users, history, now, requests, cycle, attempt, twin,
                   strictQuery, snapshotCalls, linkCalls>>

\* GET /api/leaderboard/rank?platform=..&category=..
TryUserRank ==
    /\ trial.op = "none"
    /\ \E category \in Categories, viewer \in BoardUsers, overall \in BOOLEAN,
          scan \in Orderings(BoardUsers) :
          \E rank \in IF overall
                       THEN {OverallRank(Stored, scan, category, viewer)}
                       ELSE PlatformRank(Stored, BoardPlatform, category, viewer) :
              trial' = [op |-> "rank", category |-> category, viewer |-> viewer,
                        overall |-> overall, rank |-> rank]
    /\ UNCHANGED <<accounts, users, history, now, requests, cycle, attempt, twin,
                   strictQuery, snapshotCalls, linkCalls>>

\* The same viewer sends both per-platform requests against the stored state:
\* the listing, for its userPosition, and the rank lookup.
TryBothPositions ==
    /\ trial.op = "none"
    /\ \E category \in Categories, viewer \in BoardUsers :
          \E rank \in PlatformRank(Stored, BoardPlatform, category, viewer) :
              trial' = [op |-> "positions", category |-> category, viewer |-> viewer,
                        userPosition |-> PlatformUserPosition(Stored, BoardPlatform,
                                                              category, viewer),
                        rank |-> rank]
    /\ UNCHANGED <<accounts, users, history, now, requests, cycle, attempt, twin,
                   strictQuery, snapshotCalls, linkCalls>>

NextBoard ==
    \/ TryPlatformLeaderboard
    \/ TryOverallLeaderboard
    \/ TryUserRank
    \/ TryBothPositions

SpecBoard == InitBoard /\ [][NextBoard]_vars

\* The accounts the contract ranks: active, of the platform, of a user who
\* opted into public visibility.
PublicAccounts(store, platform) ==
    {i \in DOMAIN store.accounts :
        /\ store.accounts[i].platformName = platform
        /\ store.accounts[i].isActive
        /\ store.users[store.accounts[i].userId].settings.publicProfile}

MinOf(a, b) == IF a <= b THEN a ELSE b

\* C15: the per-platform leaderboard with limit N returns min(N, P) entries
\* of the P active accounts of public users, in descending order of the
\* metric, none ranked below an account that is left out.
C15_PlatformLeaderboard ==
    trial.op = "platformBoard" =>
        LET public == PublicAccounts(Stored, BoardPlatform)
            Value(i) == FieldOf(accounts[i].stats,
                                PlatformSortField(trial.category))
            board == trial.leaderboard
            shown == {board[k].userId : k \in DOMAIN board}
        IN  /\ Len(board) = MinOf(trial.limit, Cardinality(public))
            /\ \A k \in DOMAIN board :
                  \E i \in public : accounts[i].userId = board[k].userId
            /\ \A k \in 1..(Len(board) - 1) : board[k].value >= board[k + 1].value
            /\ \A i \in public :
                  accounts[i].userId \notin shown =>
                      \A k \in DOMAIN board : board[k].value >= Value(i)


\* Whether a user is in the ranked set of a leaderboard: the profile is
\* public and the user has an account (overall) or an active account of the
\* platform.
InRankedSet(store, u, overall) ==
    /\ store.users[u].settings.publicProfile
    /\ \E i \in DOMAIN store.accounts :
          /\ store.accounts[i].userId = u
          /\ overall \/ (store.accounts[i].platformName = BoardPlatform
                          /\ store.accounts[i].isActive)

\* C16: a position lookup returns a 1-based index, and returns no number at
\* all for a user who is not in the ranked set (no account there, or a
\* profile that is not public).
C16_PositionLookup ==
    /\ trial.op = "rank" =>
          /\ \A n \in trial.rank.position : n >= 1
          /\ ~InRankedSet(Stored, trial.viewer, trial.overall)
                => trial.rank.position = {}
    /\ trial.op = "overallBoard" =>
          /\ \A n \in trial.result.userPosition : n >= 1
          /\ ~InRankedSet(Stored, trial.viewer, TRUE)
                => trial.result.userPosition = {}
    /\ trial.op = "platformBoard" =>
          /\ \A n \in trial.userPosition : n >= 1
          /\ ~InRankedSet(Stored, trial.viewer, FALSE)
                => trial.userPosition = {}

\* C17: the percentile of a rank lookup is
\* round((total - position) / total * 100), in overall and in per-platform
\* mode.
C17_Percentile ==
    (trial.op = "rank" /\ trial.rank.found /\ trial.rank.total > 0) =>
        \A position \in trial.rank.position :
            position >= 1 =>
                trial.rank.percentile
                    = {MathRound((trial.rank.total - position) * 100, trial.rank.total)}

\* The users that the overall leaderboard ranks: public, with an account.
RankedUsers(store) == {u \in BoardUsers : InRankedSet(store, u, TRUE)}

\* C18: when every account is active and belongs to a public user, in the
\* overall ranking by composite score the ranked user with the
\* highest composite score has position 1 and percentile 100, and the one
\* with the lowest has the last position and percentile round(1 / N * 100)
\* (10 for N = 10).
C18_TopAndBottom ==
    (trial.op = "rank" /\ trial.overall /\ trial.category = "cscore"
        /\ trial.viewer \in RankedUsers(Stored)
        /\ \A i \in DOMAIN accounts :
              accounts[i].isActive /\ accounts[i].userId \in RankedUsers(Stored)) =>
        LET score == [u \in BoardUsers |-> users[u].totalCScore]
            N == Cardinality(RankedUsers(Stored))
        IN  /\ (\A u \in RankedUsers(Stored) : score[u] <= score[trial.viewer]) =>
                  /\ trial.rank.position = {1}
                  /\ trial.rank.percentile = {100}
            /\ (\A u \in RankedUsers(Stored) : score[u] >= score[trial.viewer]) =>
                  /\ trial.rank.position = {N}
                  /\ trial.rank.percentile = {MathRound(100, N)}

\* Every stored account is active and belongs to a public user.
AllAccountsRanked ==
    \A i \in DOMAIN accounts :
        accounts[i].isActive /\ users[accounts[i].userId].settings.publicProfile

\* C19: entries of equal sort value are ordered by ascending creation time,
\* on the leaderboard page and in the position of a rank lookup (stated for
\* stored states whose accounts are all active and of public users).
C19_TieBreak ==
    /\ (trial.op = "overallBoard" /\ trial.category # "cscore"
            /\ AllAccountsRanked) =>
          LET board == trial.result.leaderboard
          IN  \A k \in 1..(Len(board) - 1) :
                  board[k].key = board[k + 1].key =>
                      CreatedAt(board[k].userId) < CreatedAt(board[k + 1].userId)
    /\ (trial.op = "rank" /\ ~trial.overall /\ trial.rank.found
            /\ AllAccountsRanked) =>
          LET field == PlatformSortField(trial.category)
              Value(i) == FieldOf(accounts[i].stats, field)
              active == {i \in DOMAIN accounts :
                            /\ accounts[i].platformName = BoardPlatform
                            /\ accounts[i].isActive}
              mine == CHOOSE i \in active : accounts[i].userId = trial.viewer
              ahead == {i \in active :
                           \/ Value(i) > Value(mine)
                           \/ /\ Value(i) = Value(mine)
                              /\ CreatedAt(accounts[i].userId) < CreatedAt(trial.viewer)}
          IN  trial.rank.position = {Cardinality(ahead) + 1}

\* C20: every entry of the overall leaderboard carries the Score
\* Aggregator's reduction of the user's accounts: totalProblems and maxStreak
\* over the active accounts only, avgRating the mean contestRating of the
\* active accounts whose contestRating is above 0 (0 without one).
C20_SameReduction ==
    trial.op = "overallBoard" =>
        \A k \in DOMAIN trial.result.leaderboard :
            LET entry == trial.result.leaderboard[k]
                active == ActiveAccountsOf(accounts, entry.userId)
                rated == RatedAccounts(active)
            IN  /\ entry.aggregatedStats.totalProblems = SumProblems(active)
                /\ entry.aggregatedStats.maxStreak = MaxStreak(active)
                /\ entry.aggregatedStats.avgRatingScaled * Len(rated)
                      = SumRating(rated) * AvgScale
                /\ Len(rated) = 0 => entry.aggregatedStats.avgRatingScaled = 0

\* The accounts of a list taken in the order that perm gives.
Permuted(accts, perm) == [i \in DOMAIN accts |-> accts[perm[i]]]

\* C21: the composite score computed over the accounts taken in any
\* permutation of their order is the score computed over the original order.
C21_OrderIndependent ==
    trial.op = "score" =>
        \A perm \in Orderings(DOMAIN trial.accounts) :
            LET accts == Permuted(trial.accounts, perm)
            IN  trial.cScore = IF Len(accts) = 0 THEN {} ELSE {cScoreOf(accts)}

\* A score over three accounts that differ in problems, rating and streak.
C21_Witness ==
    /\ trial.op = "score"
    /\ Len(trial.accounts) = 3
    /\ trial.cScore # {}
    /\ trial.accounts[1].stats.streak.max > trial.accounts[2].stats.streak.max
    /\ trial.accounts[2].stats.contestRating > trial.accounts[3].stats.contestRating
    /\ trial.accounts[1].stats.totalProblemsSolved
          # trial.accounts[3].stats.totalProblemsSolved

\* ceil(k / b) for b > 0
CeilDiv(k, b) == (k + b - 1) \div b

MaxPurgeDocs == 2

\* daysToKeep = 365; 365 * 24 * 60 * 60 * 1000 ms
RetentionDays == 365

SnapshotTypes == {"daily", "weekly", "monthly"}

\* The instant of the purge (hours), and the dates of the stored snapshots:
\* older than the horizon, exactly at it, and yesterday.
PurgeNow == (RetentionDays + 1) * HoursPerDay

PurgeDates == {0, PurgeNow - RetentionDays * HoursPerDay, PurgeNow - HoursPerDay}

PurgeDocs ==
    {HistoryCast([userId |-> "u1", platformName |-> "leetcode",
                  stats |-> DefaultSnapshotStats, snapshotType |-> type,
                  date |-> date]) :
        type \in SnapshotTypes, date \in PurgeDates}

PurgeStores == UNION {[1..n -> PurgeDocs] : n \in 0..MaxPurgeDocs}

\* new Date(Date.now() - daysToKeep * 24 * 60 * 60 * 1000)
CutoffDate(t, daysToKeep) == t - daysToKeep * HoursPerDay

\* statics.cleanupOldRecords(daysToKeep): deleteMany({ date: { $lt: cutoff },
\* snapshotType: 'daily' })
cleanupOldRecords(hist, t, daysToKeep) ==
    LET Kept(d) == ~(d.date < CutoffDate(t, daysToKeep) /\ d.snapshotType = "daily")
    IN  SelectSeq(hist, Kept)

\* scheduledTasks.cleanupOldStatsHistory: deleteMany({ date: { $lt: cutoff } })
cleanupOldStatsHistory(hist, t) ==
    LET Kept(d) == ~(d.date < CutoffDate(t, RetentionDays))
    IN  SelectSeq(hist, Kept)

\* The purges run on a stored history, more than a year after its oldest
\* snapshot.
InitPurge ==
    /\ history \in PurgeStores
    /\ now = PurgeNow
    /\ accounts = <<>>
    /\ users = [u \in Users |-> DefaultUser]
    /\ requests = 0
    /\ cycle = IdleCycle
    /\ attempt = <<>>
    /\ twin = [accounts |-> <<>>, cycle |-> IdleCycle]
    /\ strictQuery = TRUE
    /\ trial = [op |-> "none"]
    /\ snapshotCalls = <<>>
    /\ linkCalls = <<>>

\* StatsHistory.cleanupOldRecords() with its default horizon
CleanupOldRecords ==
    /\ history' = cleanupOldRecords(history, now, RetentionDays)
    /\ trial' = [op |-> "purge", routine |-> "cleanupOldRecords"]
    /\ UNCHANGED <<accounts, users, now, requests, cycle, attempt, twin,
                   strictQuery, snapshotCalls, linkCalls>>

\* The scheduled task cleanupOldStatsHistory
CleanupOldStatsHistory ==
    /\ history' = cleanupOldStatsHistory(history, now)
    /\ trial' = [op |-> "purge", routine |-> "cleanupOldStatsHistory"]
    /\ UNCHANGED <<accounts, users, now, requests, cycle, attempt, twin,
                   strictQuery, snapshotCalls, linkCalls>>

NextPurge == CleanupOldRecords \/ CleanupOldStatsHistory

SpecPurge == InitPurge /\ [][NextPurge]_vars

\* C23: a purge, by either routine, deletes exactly the daily snapshots
\* dated before now - 365 days: weekly and monthly snapshots and every
\* snapshot within the horizon stay, unchanged and in their order.
C23_PurgeOnlyOldDaily ==
    [][LET Stays(d) == ~(d.snapshotType = "daily"
                            /\ d.date < now - RetentionDays * HoursPerDay)
       IN  history' = SelectSeq(history, Stays)]_vars

\* C24: no step deletes a PlatformAccount record, and a step that
\* deactivates an account (removePlatformAccount, deleteProfile) changes
\* nothing else of any account, neither metrics nor sync status, and leaves
\* the history snapshots alone.
C24_SoftDeleteOnly ==
    [][/\ Len(accounts') >= Len(accounts)
       /\ \A id \in Ids(accounts) :
             /\ accounts'[id].userId = accounts[id].userId
             /\ accounts'[id].platformName = accounts[id].platformName
       /\ (\E id \in Ids(accounts) : accounts[id].isActive /\ ~accounts'[id].isActive) =>
             /\ history' = history
             /\ \A id \in Ids(accounts) :
                   accounts'[id] = [accounts[id] EXCEPT !.isActive = accounts'[id].isActive]]_vars

\* An account removed by its owner that still carries the metrics and the
\* status of its last sync.
C24_Witness ==
    \E id \in Ids(accounts) :
        /\ ~accounts[id].isActive
        /\ accounts[id].syncStatus = "success"
        /\ accounts[id].stats.totalProblemsSolved > 0
        /\ Authenticated(users, accounts[id].userId)

\* C25: once the storage layer has failed in a cycle (an account.save()
\* threw), no further account is fetched or merged in that cycle.
C25_StorageFailureAborts ==
    [][(cycle.storageDown /\ cycle'.storageDown) =>
          /\ cycle'.fetched = cycle.fetched
          /\ cycle'.merged = cycle.merged]_vars

(***************************************************************************)
(* The scheduled cycle, await by await: the callbacks of a batch run       *)
(* concurrently and interleave at their awaits.                            *)
(***************************************************************************)
MaxBatchAccounts == 3
concurrentBatchSize == 2

\* The accounts that the stored states of the cycle hold, in the order in
\* which they were linked: two of u1, then those of u2.
LinkedAccounts ==
    <<NewAccount("u1", "leetcode", 0), NewAccount("u1", "codeforces", 0),
      NewAccount("u2", "leetcode", 0), NewAccount("u2", "codeforces", 0)>>

BatchStores == {SubSeq(LinkedAccounts, 1, n) : n \in 1..MaxBatchAccounts}

\* A callback of batch.map: where it stands, the stats it fetched, the
\* accounts that its updateUserCScore read, how often its fetch was started.
IdleCall == [pc |-> "idle", stats |-> {}, read |-> {}, fetches |-> 0]

\* platformAccounts.slice(i, i + batchSize), as indices of the loaded list
BatchAt(c, i) == {k \in 1..Len(c.loaded) : i < k /\ k <= i + concurrentBatchSize}

\* batch.map(async (account) => ..): every callback of the batch runs to its
\* first await, the call of simulateStatsFetch.
StartBatch(c, i) ==
    [c EXCEPT !.i = i,
              !.calls = [k \in DOMAIN c.calls |->
                            IF k \in BatchAt(c, i)
                            THEN [c.calls[k] EXCEPT !.pc = "fetching",
                                                    !.fetches = @ + 1]
                            ELSE c.calls[k]]]

\* catch (error) { errorCount++ } of callback k
CallCaught(c, k) ==
    [c EXCEPT !.calls[k].pc = "settled", !.errorCount = @ + 1]

\* One settled callback is enough.
AnySettled(c) == \E k \in BatchAt(c, c.i) : c.calls[k].pc = "settled"

\* await Promise.all(batchPromises): every callback of the batch has settled
AllSettled(c) == \A k \in BatchAt(c, c.i) : c.calls[k].pc = "settled"

\* simulateStatsFetch: it throws or returns the stats of the platform
FetchOutcomes(platform) ==
    {[kind |-> "fetchError"]}
        \cup {[kind |-> "ok", stats |-> r] : r \in SimulatedStats(platform)}

\* The cycle runs on a stored state: the users have linked their accounts,
\* none of which has been synced yet.
InitBatch ==
    /\ accounts \in BatchStores
    /\ users = [u \in Users |-> DefaultUser]
    /\ history = <<>>
    /\ now = 0
    /\ requests = 0
    /\ cycle = [pc |-> "idle"]
    /\ attempt = <<>>
    /\ twin = [accounts |-> <<>>, cycle |-> IdleCycle]
    /\ strictQuery = TRUE
    /\ trial = [op |-> "none"]
    /\ snapshotCalls = <<>>
    /\ linkCalls = <<>>

\* cron fires: the find, then the first batch
TriggerCycle ==
    /\ cycle.pc = "idle"
    /\ LET sel == FindScheduled(accounts, now)
           c == [pc |-> IF Len(sel) = 0 THEN "done" ELSE "batch",
                 loaded |-> sel, i |-> 0,
                 calls |-> [k \in 1..Len(sel) |-> IdleCall],
                 successCount |-> 0, errorCount |-> 0, delaysElapsed |-> 0]
       IN  cycle' = StartBatch(c, 0)
    /\ UNCHANGED <<accounts, users, history, now, requests, attempt, twin,
                   strictQuery, trial, snapshotCalls, linkCalls>>

\* simulateStatsFetch settles: it threw, or the callback merges the result
\* into its document and calls save().
FetchReturns(k) ==
    /\ cycle.pc = "batch"
    /\ k \in DOMAIN cycle.calls
    /\ cycle.calls[k].pc = "fetching"
    /\ \E o \in FetchOutcomes(cycle.loaded[k].doc.platformName) :
          cycle' = IF o.kind = "fetchError" THEN CallCaught(cycle, k)
                   ELSE [cycle EXCEPT !.calls[k].pc = "saving",
                                      !.calls[k].stats = {o.stats}]
    /\ UNCHANGED <<accounts, users, history, now, requests, attempt, twin,
                   strictQuery, trial, snapshotCalls, linkCalls>>

\* account.save() settles: the document is written, or the save threw; the
\* callback then calls StatsHistory.create.
SaveReturns(k, ok) ==
    /\ cycle.pc = "batch"
    /\ k \in DOMAIN cycle.calls
    /\ cycle.calls[k].pc = "saving"
    /\ IF ok
       THEN /\ accounts' = ScheduledSave(accounts, cycle.loaded[k],
                                         CHOOSE r \in cycle.calls[k].stats : TRUE, now)
            /\ cycle' = [cycle EXCEPT !.calls[k].pc = "creating"]
       ELSE /\ accounts' = accounts
            /\ cycle' = CallCaught(cycle, k)
    /\ UNCHANGED <<users, history, now, requests, attempt, twin,
                   strictQuery, trial, snapshotCalls, linkCalls>>

\* The awaits of a callback after its save: StatsHistory.create, then in
\* updateUserCScore the find of the user's active accounts, then the update
\* of the user.
AfterSave(k) ==
    /\ cycle.pc = "batch"
    /\ k \in DOMAIN cycle.calls
    /\ cycle.calls[k].pc \in {"creating", "readingAccounts", "writingScore"}
    /\ LET ld == cycle.loaded[k]
           entry == HistoryEntry(ld, CHOOSE r \in cycle.calls[k].stats : TRUE, now)
       IN  IF cycle.calls[k].pc = "creating"
           THEN IF HistoryCreateValid(entry)
                THEN /\ history' = Append(history, HistoryCast(entry))
                     /\ cycle' = [cycle EXCEPT !.calls[k].pc = "readingAccounts"]
                     /\ users' = users
                ELSE /\ history' = history
                     /\ cycle' = CallCaught(cycle, k)
                     /\ users' = users
           ELSE IF cycle.calls[k].pc = "readingAccounts"
                THEN /\ history' = history
                     /\ cycle' = [cycle EXCEPT
                                     !.calls[k].pc = "writingScore",
                                     !.calls[k].read =
                                         {ActiveAccountsOf(accounts, ld.doc.userId)}]
                     /\ users' = users
                ELSE /\ history' = history
                     /\ users' = LET read == CHOOSE r \in cycle.calls[k].read : TRUE
                                 IN  IF Len(read) = 0 THEN users
                                     ELSE [users EXCEPT ![ld.doc.userId] =
                                             UserUpdate(@, [cScore |-> cScoreOf(read)])]
                     /\ cycle' = [cycle EXCEPT !.calls[k].pc = "settled",
                                               !.successCount = @ + 1]
    /\ UNCHANGED <<accounts, now, requests, attempt, twin, strictQuery, trial,
                   snapshotCalls, linkCalls>>

\* Promise.all resolves: the delay starts if another batch follows, else the
\* loop ends and the function returns.
BatchSettled ==
    /\ cycle.pc = "batch"
    /\ AllSettled(cycle)
    /\ cycle' = [cycle EXCEPT !.pc = IF cycle.i + concurrentBatchSize < Len(cycle.loaded)
                                     THEN "delay" ELSE "done"]
    /\ UNCHANGED <<accounts, users, history, now, requests, attempt, twin,
                   strictQuery, trial, snapshotCalls, linkCalls>>

\* The 2000 ms timer fires: i += batchSize and the next batch is mapped.
DelayElapsed ==
    /\ cycle.pc = "delay"
    /\ cycle' = StartBatch([cycle EXCEPT !.pc = "batch", !.delaysElapsed = @ + 1],
                           cycle.i + concurrentBatchSize)
    /\ UNCHANGED <<accounts, users, history, now, requests, attempt, twin,
                   strictQuery, trial, snapshotCalls, linkCalls>>

NextBatch ==
    \/ TriggerCycle
    \/ \E k \in 1..MaxBatchAccounts : FetchReturns(k)
    \/ \E k \in 1..MaxBatchAccounts, ok \in BOOLEAN : SaveReturns(k, ok)
    \/ \E k \in 1..MaxBatchAccounts : AfterSave(k)
    \/ BatchSettled
    \/ DelayElapsed

SpecBatch == InitBatch /\ [][NextBatch]_vars

\* The batch (0, 1, ..) of the k-th selected account.
BatchOf(k) == (k - 1) \div concurrentBatchSize

\* C26: in a running or finished cycle at most batchSize fetches are in
\* flight, no account's fetch was started twice and a finished cycle started
\* each one once, and a callback of a later batch has started only when every
\* callback of the earlier batches has settled and the delay between the
\* batches has elapsed.
C26_BatchesInSequence ==
    cycle.pc # "idle" =>
        LET calls == cycle.calls
            started == {k \in DOMAIN calls : calls[k].pc # "idle"}
        IN  /\ Cardinality({k \in DOMAIN calls : calls[k].pc = "fetching"})
                  <= concurrentBatchSize
            /\ \A k \in DOMAIN calls : calls[k].fetches <= 1
            /\ cycle.pc = "done" => \A k \in DOMAIN calls : calls[k].fetches = 1
            /\ \A k \in started :
                  /\ cycle.delaysElapsed >= BatchOf(k)
                  /\ \A j \in DOMAIN calls :
                        BatchOf(j) < BatchOf(k) => calls[j].pc = "settled"

\* The second batch is running after a first batch of two callbacks that
\* were in flight together.
C26_Witness ==
    /\ cycle.pc = "batch"
    /\ cycle.i > 0
    /\ cycle.delaysElapsed = 1
    /\ \E k \in DOMAIN cycle.calls : BatchOf(k) = 1 /\ cycle.calls[k].pc = "fetching"
    /\ Cardinality({k \in DOMAIN cycle.calls : BatchOf(k) = 0}) = concurrentBatchSize

\* C27: when a cycle has finished in which two accounts of one user were
\* merged by callbacks of the same batch, the user's stored score is the
\* aggregator's value over the user's accounts as merged.
C27_ScoreAfterConcurrentMerge ==
    cycle.pc = "done" =>
        \A j, k \in DOMAIN cycle.calls :
            LET u == cycle.loaded[k].doc.userId
                Merged(n) == accounts[cycle.loaded[n].id].stats.totalProblemsSolved > 0
            IN  (/\ j # k
                 /\ BatchOf(j) = BatchOf(k)
                 /\ cycle.loaded[j].doc.userId = u
                 /\ Merged(j) /\ Merged(k)) =>
                    users[u].totalCScore
                        \in AggregatorValues(ActiveAccountsOf(accounts, u))

\* C28: an add request that was made after the user removed the account of
\* that platform, and found no active one, succeeds and leaves exactly one
\* active account of the user and the platform.
C28_ReAddAfterRemove ==
    [][\A i \in 1..Len(linkCalls) :
          (/\ linkCalls[i].afterRemoval
           /\ linkCalls[i].pc = "checked"
           /\ linkCalls'[i].pc # "checked") =>
              /\ linkCalls'[i].pc = "created"
              /\ Cardinality(FindActive(accounts', linkCalls[i].userId,
                                        linkCalls[i].platformName)) = 1]_vars

\* C29: whatever add, sync, update and remove requests were handled (stated
\* for behaviours in which no scheduled cycle has run), every user's stored
\* score is a score of the user's currently active accounts: the
\* aggregator's value, or the sum that the stats controller writes.
C29_ScoreOfActiveAccounts ==
    cycle.pc = "idle" =>
        \A u \in Users :
            LET active == ActiveAccountsOf(accounts, u)
            IN  users[u].totalCScore
                    \in AggregatorValues(active) \cup {SumPlatformCScore(active)}

\* C30: for a viewer with an active account of the platform, the position
\* that the listing reports (userPosition) is the position that the rank
\* lookup reports, on the same stored state, platform and category.
C30_SamePosition ==
    (trial.op = "positions" /\ trial.rank.found) =>
        trial.userPosition = trial.rank.position

====
